---------------------------- MODULE Spec2Model ----------------------------
(***************************************************************************)
(* A model of the two mesh generators of the 3D graphing calculator:       *)
(*   - Graph    (src/src/Graph.cpp): samples z = f(x,y) over a grid,       *)
(*               exports the height map, derives normals and triangulates; *)
(*   - OBJModel (src/src/OBJModel.cpp): parses a polygon file and builds   *)
(*               a deduplicated vertex buffer and an index buffer.         *)
(*                                                                         *)
(* Number representation.                                                  *)
(*   A float that may be NaN is a record [nan, v] (NaN, F(v)).             *)
(*   Heights are held multiplied by One = 2*z_bound = 100, so that         *)
(*   height = (z + z_bound)/(z_bound*2) is exact for an integer z: the     *)
(*   sentinel -1.0 is -One, the midpoint 0.5 is One \div 2.  Colours and   *)
(*   alpha use the same unit.  The grid coordinates x and y are held       *)
(*   multiplied by (dimension - 1), so that the step 10/(dimension-1) is   *)
(*   the integer 10.  The loop arithmetic is therefore exact where the     *)
(*   program accumulates in single precision.                              *)
(*   An unsigned int is held as its two's-complement representative: a     *)
(*   negative representative r stands for 2^32 + r.                        *)
(***************************************************************************)
EXTENDS Integers, Sequences, FiniteSets, TLC

VARIABLES
    \* ---- Graph ----
    pc,             \* position of the Graph constructor
    m_equation,     \* equation string
    m_dimension,    \* grid resolution
    graph_id,       \* the constructor's id argument
    compiled,       \* what parser.compile returned (the constructor drops it)
    offValue,       \* the value the modelled function f(x,y) takes off its base
    loop_x, loop_y, \* the loop variables x and y, times (dimension - 1)
    index,          \* the sample counter
    last_height,    \* the constructor's local last_height
    zTrace,         \* the evaluation results, in sample order (history)
    m_heightData,   \* the floats written from the start of the height buffer
    m_positions,    \* x y z per sample
    m_colors,       \* r g b a per sample
    m_normals,      \* xn yn zn per sample
    generated,      \* ./generated/graph<id>.ppm, by id: the lines of the file
    m_heightTexture,\* the path handed to Texture::LoadTexture
    m_VBO,          \* Graph's vertex buffer
    m_IBO,          \* Graph's index buffer
    \* ---- OBJModel ----
    o_pc,           \* position of the OBJModel constructor
    fileName,       \* the constructor's argument, a string of characters
    fileExists,     \* whether inFile.open(fileName) succeeds
    file,           \* the lines of the polygon file (it may hold lines and
                    \* still not open)
    mtlExists,      \* whether a file opens at the resolved material path
    mtlFile,        \* the lines of that file
    lineNo,         \* the number of lines getline has returned
    m_Verts,        \* Verts, then m_Verts
    m_VertTexts,    \* VertTexts, then m_VertTexts
    m_VertNorms,    \* VertNorms, then m_VertNorms
    m_Faces,        \* Faces, then m_Faces
    m_MaterialFile, \* the material file name, then its resolved path
    m_ObjectPath,   \* the directory prefix of fileName
    pop_i,          \* the loop variable i of populateBuffers
    vertices,       \* the vertices kept by populateBuffers
    textReads,      \* the reads of m_VertTexts: [group, at] (history)
    obj_VBO,        \* VBO of populateBuffers, then OBJModel's m_VBO
    obj_IBO,        \* IBO of populateBuffers, then OBJModel's m_IBO
    texture,        \* <<what getTexture returned>>, <<>> before the call
    \* ---- a second Graph, as far as it shares state with the first ----
    peer_pc,        \* position of its constructor
    peer_equation,  \* its equation
    peer_dimension, \* its resolution
    peer_id,        \* its id argument
    \* ---- main: VertexSpecification and Draw ----
    main_pc,        \* position of main
    gEquations,     \* the equations of the command line
    gRESOLUTION,    \* the resolution of every surface
    graph_i,        \* the loop variable i of the loop that builds the Graphs
    VBOs,           \* the vertex buffers of the Graphs
    IBOs,           \* the index buffers of the Graphs
    gFaceCount,     \* the number of faces to draw
    vertexData,     \* the merged vertex buffer
    indexBufferData,\* the merged index buffer
    drawCount       \* the count handed to glDrawElements

graphVars == <<pc, m_equation, m_dimension, graph_id, compiled, offValue,
               loop_x, loop_y, index, last_height, zTrace, m_heightData,
               m_positions, m_colors, m_normals, generated, m_heightTexture,
               m_VBO, m_IBO>>

objVars == <<o_pc, fileName, fileExists, file, mtlExists, mtlFile, lineNo,
             m_Verts, m_VertTexts, m_VertNorms, m_Faces, m_MaterialFile,
             m_ObjectPath, pop_i, vertices, textReads, obj_VBO, obj_IBO,
             texture>>

peerVars == <<peer_pc, peer_equation, peer_dimension, peer_id>>

mainVars == <<main_pc, gEquations, gRESOLUTION, graph_i, VBOs, IBOs,
              gFaceCount, vertexData, indexBufferData, drawCount>>

vars == <<graphVars, objVars, peerVars, mainVars>>

-----------------------------------------------------------------------------
(* Bounds of the model *)

\* Resolutions 2..MaxDim are explored with every sample pattern.
MaxDim == 4
\* At most MaxOff samples of the free function differ from its base value 0.
MaxOff == 2
\* A resolution whose step 10/(n-1) is no larger than the loop tolerance 0.001.
LargeDim == 10001
\* A further row is sampled only while fewer than SampleCap samples are taken.
SampleCap == 100
\* A polygon file of the mesh family holds MaxVerts v lines
MaxVerts == 2
\* and an f line of at most MaxGroups index groups.
MaxGroups == 3
\* A free-form index group is a string of at most MaxChunkLen characters.
MaxChunkLen == 5
\* A polygon file path is a string of at most MaxPathLen characters.
MaxPathLen == 3
\* A polygon file of the line family holds at most MaxLines lines after its
\* first.
MaxLines == 2
\* The resolutions up to MaxExactDim whose step 10/(n-1) is a float are
\* explored with the paraboloid.
MaxExactDim == 5
\* The surfaces that main merges have a resolution of at most MaxMergeDim.
MaxMergeDim == 3

-----------------------------------------------------------------------------
(* Floats *)

NaN == [nan |-> TRUE, v |-> 0]
F(v) == [nan |-> FALSE, v |-> v]

z_bound == 50

\* 1.0 in the unit of heights, colours and alpha: z_bound*2.
One == z_bound * 2

Min(a, b) == IF a < b THEN a ELSE b
Max(a, b) == IF a > b THEN a ELSE b

\* glm::clamp / std::clamp
Clamp(v, lo, hi) == Min(Max(v, lo), hi)

-----------------------------------------------------------------------------
(* The equations of the model and the expression evaluator *)

\* "0": the constant zero.  "f(x,y)": a function that is 0 except at up to
\* MaxOff grid points, where it evaluates to offValue.  "x+*": a string the
\* parser rejects.
Equations == {"0", "f(x,y)", "x+*"}

\* parser.compile(equation, expression)
Compiles(eq) == eq # "x+*"

\* The values a sample may evaluate to off the base value: NaN, just outside
\* the bound on either side, and the bound itself on either side.
OffValues == {NaN, F(-z_bound - 1), F(z_bound + 1), F(-z_bound), F(z_bound)}

\* Number of samples so far whose height is not the height of z = 0.
OffCount(h) == Cardinality({i \in DOMAIN h : h[i] # One \div 2})

\* The value of "x^2+y^2" at the sample (x, y), both held times (n - 1), in
\* whole units (the floats of the model hold whole numbers).
Paraboloid(x, y, n) == F((x * x + y * y) \div ((n - 1) * (n - 1)))

\* expression.value(): the results the evaluator may return for a sample.
\* An expression that failed to compile is exprtk's null node, which
\* evaluates to NaN.
EvalResults(eq, off) ==
    IF eq = "0" THEN {F(0)}
    ELSE IF eq = "f(x,y)" THEN {F(0), off}
    ELSE {NaN}

-----------------------------------------------------------------------------
(* Graph::Graph, the sampling loops *)

\* x = -5.0, times (n - 1)
LoopStart(n) == -5 * (n - 1)

\* x += 10.0/(dimension-1.0), times (n - 1)
LoopStep == 10

\* x <= 5.001, for x held times (n - 1)
InDomain(v, n) == v * 1000 <= 5001 * (n - 1)

\* A variant of HeightOfSample in which a too-high sample takes over the last
\* valid height.
HeightOfSample_CarryForward(z, last) ==
    IF z.nan THEN [height |-> -One, last |-> last]
    ELSE IF z.v < -z_bound THEN [height |-> -One, last |-> -One]
    ELSE IF z.v > z_bound THEN [height |-> last, last |-> last]
    ELSE [height |-> ((z.v + z_bound) * One) \div (z_bound * 2),
          last   |-> ((z.v + z_bound) * One) \div (z_bound * 2)]

\* A variant of HeightOfSample in which a sample at the upper bound is out of
\* range.
HeightOfSample_BoundExcluded(z, last) ==
    IF z.nan THEN [height |-> -One, last |-> last]
    ELSE IF z.v < -z_bound THEN [height |-> -One, last |-> -One]
    ELSE IF z.v >= z_bound THEN [height |-> -One, last |-> last]
    ELSE [height |-> ((z.v + z_bound) * One) \div (z_bound * 2),
          last   |-> ((z.v + z_bound) * One) \div (z_bound * 2)]

\* The body of the try block: the height stored for the evaluation result z,
\* and the new value of last_height.  Nothing in the block throws, so the
\* catch clause is never entered.
HeightOfSample(z, last) ==
    IF z.nan THEN [height |-> -One, last |-> last]
    ELSE IF z.v < -z_bound THEN [height |-> -One, last |-> -One]
    ELSE IF z.v > z_bound THEN [height |-> -One, last |-> last]
    ELSE [height |-> ((z.v + z_bound) * One) \div (z_bound * 2),
          last   |-> ((z.v + z_bound) * One) \div (z_bound * 2)]

\* glm::clamp(height * (z_bound*2) - z_bound, -z_bound, z_bound)
WorldHeight(height) ==
    Clamp((height * (z_bound * 2)) \div One - z_bound, -z_bound, z_bound)

\* yellowTint = height*8 - 3.8f, clamped to [0,1]
YellowTint(height) == Clamp(height * 8 - (38 * One) \div 10, 0, One)

\* The r g b a pushed for one sample; alpha is the local alpha = 1.0f.
SampleColor(height, id, alpha) ==
    LET c == One - YellowTint(height)
        a == Clamp(alpha - One \div 10, 0, One)
    IN IF id = 1 THEN <<0, 0, c, a>>
       ELSE IF id = 2 THEN <<0, c, 0, a>>
       ELSE <<c, 0, 0, a>>

\* buffer[i] = v for a 0-based i no larger than the number of floats written
WriteAt(buffer, i, v) ==
    IF i = Len(buffer) THEN Append(buffer, v) ELSE [buffer EXCEPT ![i + 1] = v]

\* The locals and members the inner loop body reads and writes.
LoopState(x, idx, last, heightData, positions, colors) ==
    [x |-> x, index |-> idx, last_height |-> last, heightData |-> heightData,
     positions |-> positions, colors |-> colors]

\* One iteration of the inner loop for the evaluation result z, followed by
\* the loop increment of x.
SampleBody(st, z, y, id) ==
    LET r      == HeightOfSample(z, st.last_height)
        height == r.height
    IN LoopState(st.x + LoopStep,
                 st.index + 1,
                 r.last,
                 WriteAt(st.heightData, st.index + 1, height),
                 st.positions \o <<st.x, WorldHeight(height), y>>,
                 st.colors \o SampleColor(height, id, One))

RECURSIVE RowLoop(_, _, _, _, _, _)
\* Iterations lo..hi of the inner loop, in order, the k-th with the result
\* zs[k].  The range is halved, and the first half evaluated (by the test on
\* its index) before the second starts, so that evaluation nests only
\* logarithmically: every iteration adds one to the index.
RowLoop(st, zs, y, id, lo, hi) ==
    IF lo > hi THEN st
    ELSE IF lo = hi THEN SampleBody(st, zs[lo], y, id)
    ELSE LET mid  == (lo + hi) \div 2
             left == RowLoop(st, zs, y, id, lo, mid)
         IN IF left.index > st.index
            THEN RowLoop(left, zs, y, id, mid + 1, hi)
            ELSE left

\* The number of iterations of for (x = -5.0; x <= 5.001; x += 10.0/(n-1.0)):
\* the first k for which the test fails after k increments.  The test fails
\* for k = 2n, so the range holds it.
LoopCount(n) ==
    CHOOSE k \in 1..(2 * n) :
        /\ InDomain(LoopStart(n) + (k - 1) * LoopStep, n)
        /\ ~InDomain(LoopStart(n) + k * LoopStep, n)

\* The results the evaluator may return for the cnt samples of one row.
RowResults(eq, off, h, cnt, y, n) ==
    IF eq = "f(x,y)"
    THEN {zs \in [1..cnt -> {F(0), off}] :
            OffCount(h) + Cardinality({i \in 1..cnt : zs[i] = off}) <= MaxOff}
    ELSE IF eq = "x^2+y^2"
    THEN {[k \in 1..cnt |->
             Paraboloid(LoopStart(n) + (k - 1) * LoopStep, y, n)]}
    ELSE [1..cnt -> EvalResults(eq, off)]

\* The constructor up to the first loop test: members, compile, allocation.
Construct ==
    /\ pc = "start"
    /\ compiled' = Compiles(m_equation)
    /\ m_heightData' = <<>>
    /\ index' = -1
    /\ last_height' = One \div 2
    /\ loop_y' = LoopStart(m_dimension)
    /\ loop_x' = LoopStart(m_dimension)
    /\ pc' = "sampling"
    /\ UNCHANGED <<m_equation, m_dimension, graph_id, offValue, zTrace,
                   m_positions, m_colors, m_normals, generated,
                   m_heightTexture, m_VBO, m_IBO>>
    /\ UNCHANGED <<objVars, peerVars, mainVars>>

\* One iteration of the outer loop: the whole inner loop for the current y,
\* then the increment and test of y.
SampleRow ==
    /\ pc = "sampling"
    /\ Len(m_heightData) < SampleCap
    /\ LET cnt == LoopCount(m_dimension)
       IN \E zs \in RowResults(m_equation, offValue, m_heightData, cnt,
                                  loop_y, m_dimension) :
            \E st \in {RowLoop(LoopState(LoopStart(m_dimension), index,
                                         last_height, m_heightData,
                                         m_positions, m_colors),
                               zs, loop_y, graph_id, 1, cnt)} :
               /\ loop_x' = st.x
               /\ index' = st.index
               /\ last_height' = st.last_height
               /\ m_heightData' = st.heightData
               /\ m_positions' = st.positions
               /\ m_colors' = st.colors
               /\ zTrace' = zTrace \o zs
    /\ loop_y' = loop_y + LoopStep
    /\ pc' = IF InDomain(loop_y + LoopStep, m_dimension)
             THEN "sampling" ELSE "sampled"
    /\ UNCHANGED <<m_equation, m_dimension, graph_id, compiled, offValue,
                   m_normals, generated, m_heightTexture, m_VBO, m_IBO>>
    /\ UNCHANGED <<objVars, peerVars, mainVars>>

-----------------------------------------------------------------------------
(* Graph::Graph, the export of the height map *)

\* A variant of PixelRGB that truncates instead of rounding.
PixelRGB_Truncated(height) == (Clamp(height, 0, 10 * One) * 255) \div One

\* (int) (clamp(pixel, 0, 10) * 255.0f + 0.5f)
PixelRGB(height) == (Clamp(height, 0, 10 * One) * 255 + One \div 2) \div One

\* "./generated/graph" + std::to_string(id) + ".ppm"
FilePath(id) == <<"./generated/graph", id, ".ppm">>

\* The lines written to the file: the header and dimension*dimension pixels.
RasterLines(eq, n, h) ==
    <<  <<"P3">>,
        <<"# Generated .ppm file from equation z = ", eq>>,
        <<n, n>>,
        <<255>>  >>
    \o [i \in 1..(n * n) |->
            <<PixelRGB(h[i]), PixelRGB(h[i]), PixelRGB(h[i])>>]

ExportRaster ==
    /\ pc = "sampled"
    /\ generated' = [generated EXCEPT ![graph_id] =
                        RasterLines(m_equation, m_dimension, m_heightData)]
    /\ m_heightTexture' = FilePath(graph_id)
    /\ pc' = "exported"
    /\ UNCHANGED <<m_equation, m_dimension, graph_id, compiled, offValue,
                   loop_x, loop_y, index, last_height, zTrace, m_heightData,
                   m_positions, m_colors, m_normals, m_VBO, m_IBO>>
    /\ UNCHANGED <<objVars, peerVars, mainVars>>


\* The heights a Graph stores for an equation with a single evaluation result.
UniformHeights(eq, n) ==
    [i \in 1..(n * n) |->
        HeightOfSample(CHOOSE z \in EvalResults(eq, F(0)) : TRUE,
                       One \div 2).height]

\* The constructor of the second Graph, of which only the write of its
\* raster file ./generated/graph<id>.ppm is visible to the first.
PeerConstruct ==
    /\ peer_pc = "start"
    /\ generated' = [generated EXCEPT ![peer_id] =
                        RasterLines(peer_equation, peer_dimension,
                                    UniformHeights(peer_equation,
                                                   peer_dimension))]
    /\ peer_pc' = "done"
    /\ UNCHANGED <<pc, m_equation, m_dimension, graph_id, compiled, offValue,
                   loop_x, loop_y, index, last_height, zTrace, m_heightData,
                   m_positions, m_colors, m_normals, m_heightTexture, m_VBO,
                   m_IBO>>
    /\ UNCHANGED <<peer_equation, peer_dimension, peer_id>>
    /\ UNCHANGED <<objVars, mainVars>>

-----------------------------------------------------------------------------
(* Graph::calculateNormals *)

\* A component of a normalized vector is the record [num, den2] standing for
\* num / sqrt(den2); the float 0 is [num |-> 0, den2 |-> 1].
Zero == [num |-> 0, den2 |-> 1]

\* A variant of Cross with the operands exchanged.
Cross_Exchanged(a, b) == << a[3] * b[2] - a[2] * b[3],
                            a[1] * b[3] - a[3] * b[1],
                            a[2] * b[1] - a[1] * b[2] >>

\* glm::cross
Cross(a, b) == << a[2] * b[3] - a[3] * b[2],
                  a[3] * b[1] - a[1] * b[3],
                  a[1] * b[2] - a[2] * b[1] >>

Dot(a, b) == a[1] * b[1] + a[2] * b[2] + a[3] * b[3]

\* glm::normalize: v * inversesqrt(dot(v, v)); a zero vector gives 0 * inf,
\* which is NaN, held as [num |-> 0, den2 |-> 0].
Normalize(v) == [i \in 1..3 |-> [num |-> v[i], den2 |-> Dot(v, v)]]

\* m_heightData[x + y * m_dimension]
HeightAt(h, x, y, n) == h[x + y * n + 1]

\* (point * (z_bound * 2)) - z_bound: a stored height back in world units
UnNormalize(height) == (height * (z_bound * 2)) \div One - z_bound

\* A variant of NormalAt that tests only the x neighbours for the sentinel.
NormalAt_NoYCheck(h, x, y, n) ==
    IF x = 0 \/ x >= n - 1 \/ y = 0 \/ y >= n - 1 THEN <<Zero, Zero, Zero>>
    ELSE IF HeightAt(h, x - 1, y, n) < 0 \/ HeightAt(h, x + 1, y, n) < 0
         THEN <<Zero, Zero, Zero>>
    ELSE LET dx == UnNormalize(HeightAt(h, x + 1, y, n))
                     - UnNormalize(HeightAt(h, x - 1, y, n))
             dy == UnNormalize(HeightAt(h, x, y + 1, n))
                     - UnNormalize(HeightAt(h, x, y - 1, n))
             vector_x == <<2 * LoopStep, dx * (n - 1), 0>>
             vector_y == <<0, dy * (n - 1), 2 * LoopStep>>
         IN Normalize(Cross(vector_y, vector_x))

\* The three floats pushed for the vertex at (x, y).  partial_x is
\* (rightPoint - leftPoint) / (2*10.0/(m_dimension-1.0)); both tangent
\* vectors are held times 2*10, which leaves the normalized cross product
\* as it is.
NormalAt(h, x, y, n) ==
    IF x = 0 \/ x >= n - 1 \/ y = 0 \/ y >= n - 1 THEN <<Zero, Zero, Zero>>
    ELSE IF HeightAt(h, x - 1, y, n) < 0 \/ HeightAt(h, x + 1, y, n) < 0
         THEN <<Zero, Zero, Zero>>
    ELSE IF HeightAt(h, x, y - 1, n) < 0 \/ HeightAt(h, x, y + 1, n) < 0
         THEN <<Zero, Zero, Zero>>
    ELSE LET dx == UnNormalize(HeightAt(h, x + 1, y, n))
                     - UnNormalize(HeightAt(h, x - 1, y, n))
             dy == UnNormalize(HeightAt(h, x, y + 1, n))
                     - UnNormalize(HeightAt(h, x, y - 1, n))
             vector_x == <<2 * LoopStep, dx * (n - 1), 0>>
             vector_y == <<0, dy * (n - 1), 2 * LoopStep>>
         IN Normalize(Cross(vector_y, vector_x))

RECURSIVE NormalsLoop(_, _, _, _)
\* The loops over y and x, as one loop over curr = x + y * m_dimension.
NormalsLoop(h, n, curr, normals) ==
    IF curr >= n * n THEN normals
    ELSE NormalsLoop(h, n, curr + 1,
                     normals \o NormalAt(h, curr % n, curr \div n, n))

calculateNormals(h, n) == NormalsLoop(h, n, 0, <<>>)

-----------------------------------------------------------------------------
(* Graph::updateBuffers *)

RECURSIVE VertexLoop(_, _, _, _, _)
\* for (i = 0; i < m_positions.size()/3; i++): 12 floats per vertex
VertexLoop(positions, normals, colors, i, VBO) ==
    IF i >= Len(positions) \div 3 THEN VBO
    ELSE VertexLoop(positions, normals, colors, i + 1,
            VBO \o << positions[i * 3 + 1], positions[i * 3 + 2],
                      positions[i * 3 + 3],
                      normals[i * 3 + 1], normals[i * 3 + 2],
                      normals[i * 3 + 3],
                      colors[i * 4 + 1], colors[i * 4 + 2],
                      colors[i * 4 + 3], colors[i * 4 + 4],
                      0, 0 >>)

\* m_heightData[curr] >= 0.0f && m_heightData[curr + 1] >= 0.0f
\*   && m_heightData[curr + m_dimension] >= 0.0f
Triangle1Valid(h, curr, n) ==
    h[curr + 1] >= 0 /\ h[curr + 1 + 1] >= 0 /\ h[curr + n + 1] >= 0

\* A variant of Triangle2Valid that tests the corner curr in place of the
\* corner curr + m_dimension + 1.
Triangle2Valid_WrongCorner(h, curr, n) ==
    h[curr + 1] >= 0 /\ h[curr + 1 + 1] >= 0 /\ h[curr + n + 1] >= 0

\* m_heightData[curr + m_dimension + 1] >= 0.0f && m_heightData[curr + 1] >= 0.0f
\*   && m_heightData[curr + m_dimension] >= 0.0f
Triangle2Valid(h, curr, n) ==
    h[curr + n + 1 + 1] >= 0 /\ h[curr + 1 + 1] >= 0 /\ h[curr + n + 1] >= 0

\* A variant of CellIndices whose second triangle names the vertex one row
\* below the grid's last row.
CellIndices_PastEnd(h, curr, n) ==
    (IF Triangle1Valid(h, curr, n)
     THEN <<curr, curr + 1, curr + n>> ELSE <<>>)
    \o
    (IF Triangle2Valid(h, curr, n)
     THEN <<curr + 1, curr + n + n + 1, curr + n>> ELSE <<>>)

\* The indices pushed for the cell whose first corner is curr.
CellIndices(h, curr, n) ==
    (IF Triangle1Valid(h, curr, n)
     THEN <<curr, curr + 1, curr + n>> ELSE <<>>)
    \o
    (IF Triangle2Valid(h, curr, n)
     THEN <<curr + 1, curr + n + 1, curr + n>> ELSE <<>>)

RECURSIVE IndexLoop(_, _, _, _)
\* The loops over y and x below m_dimension - 1, as one loop over the cells
\* k = x + y * (m_dimension - 1).
IndexLoop(h, n, k, IBO) ==
    IF k >= (n - 1) * (n - 1) THEN IBO
    ELSE LET x == k % (n - 1)
             y == k \div (n - 1)
         IN IndexLoop(h, n, k + 1, IBO \o CellIndices(h, x + y * n, n))

\* The end of the constructor: calculateNormals(), then updateBuffers().
BuildMesh ==
    /\ pc = "exported"
    /\ m_normals' = calculateNormals(m_heightData, m_dimension)
    /\ m_VBO' = VertexLoop(m_positions, m_normals', m_colors, 0, <<>>)
    /\ m_IBO' = IndexLoop(m_heightData, m_dimension, 0, <<>>)
    /\ pc' = "done"
    /\ UNCHANGED <<m_equation, m_dimension, graph_id, compiled, offValue,
                   loop_x, loop_y, index, last_height, zTrace, m_heightData,
                   m_positions, m_colors, generated, m_heightTexture>>
    /\ UNCHANGED <<objVars, peerVars, mainVars>>

-----------------------------------------------------------------------------
(* OBJModel: strings *)

\* A std::string is a sequence of one-character strings.

\* std::string::find(c) stored in an int: the 0-based index of the first c,
\* or -1 (npos).
RECURSIVE FindFrom(_, _, _)
FindFrom(s, c, i) ==
    IF i > Len(s) THEN -1
    ELSE IF s[i] = c THEN i - 1
    ELSE FindFrom(s, c, i + 1)

Find(s, c) == FindFrom(s, c, 1)

\* s.substr(pos, n) for pos <= s.size(): the count is a size_t, so that an
\* int of -1 is npos and the substring runs to the end of s.
Substr(s, pos, n) ==
    IF n < 0 \/ pos + n > Len(s)
    THEN SubSeq(s, pos + 1, Len(s))
    ELSE SubSeq(s, pos + 1, pos + n)

DigitValue ==
    ("0" :> 0) @@ ("1" :> 1) @@ ("2" :> 2) @@ ("3" :> 3) @@ ("4" :> 4) @@
    ("5" :> 5) @@ ("6" :> 6) @@ ("7" :> 7) @@ ("8" :> 8) @@ ("9" :> 9)

Digits == DOMAIN DigitValue

\* The number of digits s begins with.
RECURSIVE DigitRun(_, _)
DigitRun(s, i) ==
    IF i <= Len(s) /\ s[i] \in Digits THEN DigitRun(s, i + 1) ELSE i - 1

\* The value of a string of digits.
RECURSIVE Decimal(_)
Decimal(s) ==
    IF s = <<>> THEN 0
    ELSE 10 * Decimal(SubSeq(s, 1, Len(s) - 1)) + DigitValue[s[Len(s)]]

\* std::stoi, for strings without sign or leading blank: the digits s begins
\* with are converted and what follows them is ignored; with no digit to
\* convert, std::invalid_argument is thrown (ok = FALSE).
stoi(s) ==
    LET k == DigitRun(s, 1)
    IN  [ok |-> k > 0, val |-> Decimal(SubSeq(s, 1, k))]

\* std::stof, for strings without sign, point or exponent: "nan" and the
\* digits s begins with are converted, what follows is ignored; with no
\* conversion, std::invalid_argument is thrown (ok = FALSE).
stof(s) ==
    IF Len(s) >= 3 /\ SubSeq(s, 1, 3) = <<"n", "a", "n">>
    THEN [ok |-> TRUE, val |-> NaN]
    ELSE LET k == DigitRun(s, 1)
         IN  [ok |-> k > 0, val |-> F(Decimal(SubSeq(s, 1, k)))]

\* A variant of StripComment that keeps the comment.
StripComment_Kept(line) == line

\* The line up to its first '#': find gives an int, which compares equal to
\* npos exactly when no '#' was found.
StripComment(line) ==
    LET idx == Find(line, "#")
    IN  IF idx # -1 THEN Substr(line, 0, idx) ELSE line

\* The chunks that stream >> chunk extracts: the maximal runs without blank.
RECURSIVE Chunks(_, _, _)
Chunks(line, i, chunk) ==
    IF i > Len(line)
    THEN IF chunk = <<>> THEN <<>> ELSE <<chunk>>
    ELSE IF line[i] = " "
         THEN (IF chunk = <<>> THEN <<>> ELSE <<chunk>>)
                 \o Chunks(line, i + 1, <<>>)
         ELSE Chunks(line, i + 1, Append(chunk, line[i]))

\* The line that holds the given chunks, separated by single blanks.
RECURSIVE Line(_)
Line(chunks) ==
    IF chunks = <<>> THEN <<>>
    ELSE IF Len(chunks) = 1 THEN chunks[1]
    ELSE chunks[1] \o <<" ">> \o Line(Tail(chunks))

\* The strings of length 1..len over the characters cs.
RECURSIVE StringsOfLen(_, _)
StringsOfLen(cs, len) ==
    IF len = 0 THEN {<<>>}
    ELSE {Append(s, c) : s \in StringsOfLen(cs, len - 1), c \in cs}

Strings(cs, len) == UNION {StringsOfLen(cs, k) : k \in 1..len}

\* The sequences of length lo..hi over the set S.
SeqsOver(S, lo, hi) == UNION {[1..k -> S] : k \in lo..hi}

-----------------------------------------------------------------------------
(* OBJModel: the constructor's parser *)

\* The directives of a polygon file.
dir_v == <<"v">>
dir_vn == <<"v", "n">>
dir_f == <<"f">>
dir_vt == <<"v", "t">>
dir_mtllib == <<"m", "t", "l", "l", "i", "b">>

\* The line type the first chunk of a line selects; Break leaves the line.
Break == -2

LineTypeOf(chunk) ==
    IF chunk = dir_v THEN 0
    ELSE IF chunk = dir_vn THEN 1
    ELSE IF chunk = dir_f THEN 2
    ELSE IF chunk = dir_vt THEN 3
    ELSE IF chunk = dir_mtllib THEN 4
    ELSE Break

\* A variant of FaceGroup that keeps the indices of the file as they are.
FaceGroup_OneBased(chunk) ==
    LET slashesIndex  == Find(chunk, "/")
        vertIndex     == stoi(Substr(chunk, 0, slashesIndex))
        part2         == Substr(chunk, slashesIndex + 1, Len(chunk))
        slashesIndex2 == Find(part2, "/")
        textureIndex  == stoi(Substr(part2, 0, slashesIndex2))
        normIndex     == stoi(Substr(part2, slashesIndex2 + 1, Len(chunk)))
    IN  IF ~vertIndex.ok \/ (slashesIndex2 > 0 /\ ~textureIndex.ok)
           \/ ~normIndex.ok
        THEN [ok |-> FALSE, triple |-> <<>>]
        ELSE [ok |-> TRUE,
              triple |-> <<vertIndex.val,
                           IF slashesIndex2 > 0 THEN textureIndex.val
                                                ELSE -1,
                           normIndex.val>>]

\* The three ints the parser pushes for one chunk of an f line, or a throw of
\* stoi (ok = FALSE).
FaceGroup(chunk) ==
    LET slashesIndex  == Find(chunk, "/")
        vertIndex     == stoi(Substr(chunk, 0, slashesIndex))
        part2         == Substr(chunk, slashesIndex + 1, Len(chunk))
        slashesIndex2 == Find(part2, "/")
        textureIndex  == stoi(Substr(part2, 0, slashesIndex2))
        normIndex     == stoi(Substr(part2, slashesIndex2 + 1, Len(chunk)))
    IN  IF ~vertIndex.ok \/ (slashesIndex2 > 0 /\ ~textureIndex.ok)
           \/ ~normIndex.ok
        THEN [ok |-> FALSE, triple |-> <<>>]
        ELSE [ok |-> TRUE,
              triple |-> <<vertIndex.val - 1,
                           IF slashesIndex2 > 0 THEN textureIndex.val - 1
                                                ELSE -1,
                           normIndex.val - 1>>]

\* The parser's locals and m_MaterialFile while a line is read.
ParseState(lineType, Verts, VertNorms, VertTexts, Faces, Material, threw) ==
    [lineType |-> lineType, Verts |-> Verts, VertNorms |-> VertNorms,
     VertTexts |-> VertTexts, Faces |-> Faces, Material |-> Material,
     threw |-> threw]

\* One pass of the loop  while (stream >> chunk).
ChunkBody(st, chunk) ==
    IF st.lineType = -1 THEN [st EXCEPT !.lineType = LineTypeOf(chunk)]
    ELSE IF st.lineType \in {0, 1, 3} THEN
        LET value == stof(chunk)
        IN  IF ~value.ok THEN [st EXCEPT !.threw = TRUE]
            ELSE IF st.lineType = 0
                 THEN [st EXCEPT !.Verts = Append(@, value.val)]
            ELSE IF st.lineType = 1
                 THEN [st EXCEPT !.VertNorms = Append(@, value.val)]
            ELSE [st EXCEPT !.VertTexts = Append(@, value.val)]
    ELSE IF st.lineType = 2 THEN
        LET group == FaceGroup(chunk)
        IN  IF ~group.ok THEN [st EXCEPT !.threw = TRUE]
            ELSE [st EXCEPT !.Faces = @ \o group.triple]
    ELSE [st EXCEPT !.Material = chunk]

\* The loop over the chunks of a line, left on break and on a throw.
RECURSIVE ChunkLoop(_, _, _)
ChunkLoop(st, chunks, i) ==
    IF i > Len(chunks) \/ st.lineType = Break \/ st.threw THEN st
    ELSE ChunkLoop(ChunkBody(st, chunks[i]), chunks, i + 1)

\* OBJModel(fileName): the file is opened.
OpenFile ==
    /\ o_pc = "start"
    /\ o_pc' = "parsing"
    /\ UNCHANGED <<fileName, fileExists, file, mtlExists, mtlFile, lineNo,
                   m_Verts, m_VertTexts, m_VertNorms, m_Faces, m_MaterialFile,
                   m_ObjectPath, pop_i, vertices, textReads, obj_VBO, obj_IBO,
                   texture>>
    /\ UNCHANGED <<graphVars, peerVars, mainVars>>

\* A variant of ReadLine that reads the lines of a file that did not open.
ReadLine_Unopened ==
    /\ o_pc = "parsing"
    /\ lineNo < Len(file)
    /\ LET chunks == Chunks(StripComment(file[lineNo + 1]), 1, <<>>)
           st == ChunkLoop(ParseState(-1, m_Verts, m_VertNorms, m_VertTexts,
                                      m_Faces, m_MaterialFile, FALSE),
                           chunks, 1)
       IN  /\ m_Verts' = st.Verts
           /\ m_VertNorms' = st.VertNorms
           /\ m_VertTexts' = st.VertTexts
           /\ m_Faces' = st.Faces
           /\ m_MaterialFile' = st.Material
           /\ o_pc' = IF st.threw THEN "threw" ELSE "parsing"
    /\ lineNo' = lineNo + 1
    /\ UNCHANGED <<fileName, fileExists, file, mtlExists, mtlFile,
                   m_ObjectPath, pop_i, vertices, textReads, obj_VBO, obj_IBO,
                   texture>>
    /\ UNCHANGED <<graphVars, peerVars, mainVars>>

\* One pass of the loop  while (getline(inFile, line)); an exception of stoi
\* or stof is caught nowhere and ends the program.
ReadLine ==
    /\ o_pc = "parsing"
    /\ fileExists
    /\ lineNo < Len(file)
    /\ LET chunks == Chunks(StripComment(file[lineNo + 1]), 1, <<>>)
           st == ChunkLoop(ParseState(-1, m_Verts, m_VertNorms, m_VertTexts,
                                      m_Faces, m_MaterialFile, FALSE),
                           chunks, 1)
       IN  /\ m_Verts' = st.Verts
           /\ m_VertNorms' = st.VertNorms
           /\ m_VertTexts' = st.VertTexts
           /\ m_Faces' = st.Faces
           /\ m_MaterialFile' = st.Material
           /\ o_pc' = IF st.threw THEN "threw" ELSE "parsing"
    /\ lineNo' = lineNo + 1
    /\ UNCHANGED <<fileName, fileExists, file, mtlExists, mtlFile,
                   m_ObjectPath, pop_i, vertices, textReads, obj_VBO, obj_IBO,
                   texture>>
    /\ UNCHANGED <<graphVars, peerVars, mainVars>>

\* The index one past the last '/' of the file name, or -1.
RECURSIVE LastSlashLoop(_, _)
LastSlashLoop(name, i) ==
    IF i < 0 THEN -1
    ELSE IF name[i + 1] = "/" THEN i + 1
    ELSE LastSlashLoop(name, i - 1)

\* The file is read (or was not opened): the vectors become members and the
\* paths are resolved.
ResolvePaths ==
    /\ o_pc = "parsing"
    /\ ~fileExists \/ lineNo = Len(file)
    /\ LET idx == LastSlashLoop(fileName, Len(fileName) - 1)
       IN  /\ m_ObjectPath' = Substr(fileName, 0, idx)
           /\ m_MaterialFile' = Substr(fileName, 0, idx) \o m_MaterialFile
    /\ pop_i' = 0
    /\ o_pc' = "populate"
    /\ UNCHANGED <<fileName, fileExists, file, mtlExists, mtlFile, lineNo,
                   m_Verts, m_VertTexts, m_VertNorms, m_Faces, vertices,
                   textReads, obj_VBO, obj_IBO, texture>>
    /\ UNCHANGED <<graphVars, peerVars, mainVars>>

-----------------------------------------------------------------------------
(* OBJModel: populateBuffers *)

\* An index computed in unsigned int addresses an element of the vector when
\* its representative is in 0..size-1; a negative representative stands for
\* an index of at least 2^31.
InBounds(vec, i) == i >= 0 /\ i < Len(vec)

\* What a read outside the vector may deliver when it does not fault.
GarbageValues == {F(0), F(1), NaN}

\* vec[i]: the element, or any float when i is outside the vector.
ReadAt(vec, i) == IF InBounds(vec, i) THEN {vec[i + 1]} ELSE GarbageValues

\* operator== of float
FloatEq(a, b) == ~a.nan /\ ~b.nan /\ a.v = b.v

VertexData(x, y, z, s, t) == [x |-> x, y |-> y, z |-> z, s |-> s, t |-> t]

\* VertexData::operator==
VertexEq(a, b) ==
    /\ FloatEq(a.x, b.x) /\ FloatEq(a.y, b.y) /\ FloatEq(a.z, b.z)
    /\ FloatEq(a.s, b.s) /\ FloatEq(a.t, b.t)

\* std::find(vertices.begin(), vertices.end(), vertex) - vertices.begin()
RECURSIVE FindVertex(_, _, _)
FindVertex(vs, vertex, i) ==
    IF i >= Len(vs) THEN Len(vs)
    ELSE IF VertexEq(vs[i + 1], vertex) THEN i
    ELSE FindVertex(vs, vertex, i + 1)

\* The twelve floats of a vertex buffer record.
VertexRecord(v) ==
    <<v.x, v.y, v.z, F(0), F(0), F(0), F(1), F(1), F(1), F(1), v.s, v.t>>

\* The vector indices one pass of the loop reads.
PosIndex(i) == m_Faces[i + 1] * 3
TextIndex(i) == m_Faces[i + 2] * 2

\* One pass of the loop of populateBuffers whose reads do not fault.
PopulateStep ==
    /\ o_pc = "populate"
    /\ pop_i < Len(m_Faces)
    /\ \E x \in ReadAt(m_Verts, PosIndex(pop_i) + 0),
          y \in ReadAt(m_Verts, PosIndex(pop_i) + 1),
          z \in ReadAt(m_Verts, PosIndex(pop_i) + 2),
          s \in ReadAt(m_VertTexts, TextIndex(pop_i) + 0),
          t \in ReadAt(m_VertTexts, TextIndex(pop_i) + 1) :
          LET vertex == VertexData(x, y, z, s, t)
              ind == FindVertex(vertices, vertex, 0)
          IN  IF ind = Len(vertices)
              THEN /\ obj_VBO' = obj_VBO \o VertexRecord(vertex)
                   /\ obj_IBO' = Append(obj_IBO, Len(vertices))
                   /\ vertices' = Append(vertices, vertex)
              ELSE /\ obj_IBO' = Append(obj_IBO, ind)
                   /\ UNCHANGED <<obj_VBO, vertices>>
    /\ textReads' = textReads \o
          <<[group |-> pop_i \div 3, at |-> TextIndex(pop_i) + 0],
            [group |-> pop_i \div 3, at |-> TextIndex(pop_i) + 1]>>
    /\ pop_i' = pop_i + 3
    /\ UNCHANGED <<o_pc, fileName, fileExists, file, mtlExists, mtlFile,
                   lineNo, m_Verts, m_VertTexts, m_VertNorms, m_Faces,
                   m_MaterialFile, m_ObjectPath, texture>>
    /\ UNCHANGED <<graphVars, peerVars, mainVars>>

\* A read outside m_Verts or m_VertTexts faults and ends the program.
PopulateFault ==
    /\ o_pc = "populate"
    /\ pop_i < Len(m_Faces)
    /\ \/ \E k \in 0..2 : ~InBounds(m_Verts, PosIndex(pop_i) + k)
       \/ \E k \in 0..1 : ~InBounds(m_VertTexts, TextIndex(pop_i) + k)
    /\ o_pc' = "crashed"
    /\ UNCHANGED <<fileName, fileExists, file, mtlExists, mtlFile, lineNo,
                   m_Verts, m_VertTexts, m_VertNorms, m_Faces, m_MaterialFile,
                   m_ObjectPath, pop_i, vertices, textReads, obj_VBO, obj_IBO,
                   texture>>
    /\ UNCHANGED <<graphVars, peerVars, mainVars>>

\* The loop is left: VBO and IBO become members and the constructor returns.
PopulateEnd ==
    /\ o_pc = "populate"
    /\ pop_i >= Len(m_Faces)
    /\ o_pc' = "done"
    /\ UNCHANGED <<fileName, fileExists, file, mtlExists, mtlFile, lineNo,
                   m_Verts, m_VertTexts, m_VertNorms, m_Faces, m_MaterialFile,
                   m_ObjectPath, pop_i, vertices, textReads, obj_VBO, obj_IBO,
                   texture>>
    /\ UNCHANGED <<graphVars, peerVars, mainVars>>

-----------------------------------------------------------------------------
(* OBJModel: getTexture *)

dir_map_Kd == <<"m", "a", "p", "_", "K", "d">>

\* The chunk after map_Kd on a line, or <<>> when the line has none.
MapKdArgument(line) ==
    LET chunks == Chunks(StripComment(line), 1, <<>>)
    IN  IF Len(chunks) >= 2 /\ chunks[1] = dir_map_Kd
        THEN <<chunks[2]>> ELSE <<>>

\* The loop over the lines of the material file: the object path followed
\* by the first map_Kd argument, or "" when no line has one.
RECURSIVE TextureLoop(_, _)
TextureLoop(lines, i) ==
    IF i > Len(lines) THEN <<>>
    ELSE LET arg == MapKdArgument(lines[i])
         IN  IF arg # <<>> THEN m_ObjectPath \o arg[1]
             ELSE TextureLoop(lines, i + 1)

\* getTexture(): mtlExists tells whether a file opens at m_MaterialFile.
getTexture ==
    /\ o_pc = "done"
    /\ texture' = <<IF mtlExists THEN TextureLoop(mtlFile, 1) ELSE <<>> >>
    /\ o_pc' = "textured"
    /\ UNCHANGED <<fileName, fileExists, file, mtlExists, mtlFile, lineNo,
                   m_Verts, m_VertTexts, m_VertNorms, m_Faces, m_MaterialFile,
                   m_ObjectPath, pop_i, vertices, textReads, obj_VBO,
                   obj_IBO>>
    /\ UNCHANGED <<graphVars, peerVars, mainVars>>

-----------------------------------------------------------------------------
(* The program *)

\* main.cpp passes i + 1 for the i-th of at most three equations.
GraphIds == 1..3

\* main pushes at most three arguments to gEquations.
MaxEquations == 3

\* The state before a Graph is constructed from (equation, dimension, id).
GraphInit(dims, eqs, ids) ==
    /\ pc = "start"
    /\ m_equation \in eqs
    /\ m_dimension \in dims
    /\ graph_id \in ids
    /\ offValue \in (IF m_equation = "f(x,y)" THEN OffValues ELSE {F(0)})
    /\ compiled = TRUE
    /\ loop_x = 0
    /\ loop_y = 0
    /\ index = -1
    /\ last_height = One \div 2
    /\ zTrace = <<>>
    /\ m_heightData = <<>>
    /\ m_positions = <<>>
    /\ m_colors = <<>>
    /\ m_normals = <<>>
    /\ generated = [i \in GraphIds |-> <<>>]
    /\ m_heightTexture = <<>>
    /\ m_VBO = <<>>
    /\ m_IBO = <<>>

\* No OBJModel is constructed.
OBJIdle ==
    /\ o_pc = "idle"
    /\ fileName = <<>>
    /\ fileExists = FALSE
    /\ file = <<>>
    /\ mtlExists = FALSE
    /\ mtlFile = <<>>
    /\ lineNo = 0
    /\ m_Verts = <<>>
    /\ m_VertTexts = <<>>
    /\ m_VertNorms = <<>>
    /\ m_Faces = <<>>
    /\ m_MaterialFile = <<>>
    /\ m_ObjectPath = <<>>
    /\ pop_i = 0
    /\ vertices = <<>>
    /\ textReads = <<>>
    /\ obj_VBO = <<>>
    /\ obj_IBO = <<>>
    /\ texture = <<>>

\* No second Graph is constructed.
PeerIdle ==
    /\ peer_pc = "idle"
    /\ peer_equation = "0"
    /\ peer_dimension = 2
    /\ peer_id = 1

\* The state before a second Graph is constructed.
PeerInit(dims, eqs, ids) ==
    /\ peer_pc = "start"
    /\ peer_equation \in eqs
    /\ peer_dimension \in dims
    /\ peer_id \in ids

\* VertexSpecification is not called.
MainIdle ==
    /\ main_pc = "idle"
    /\ gEquations = <<>>
    /\ gRESOLUTION = 2
    /\ graph_i = 0
    /\ VBOs = <<>>
    /\ IBOs = <<>>
    /\ gFaceCount = 0
    /\ vertexData = <<>>
    /\ indexBufferData = <<>>
    /\ drawCount = 0

\* No Graph is constructed.
GraphIdle ==
    /\ pc = "idle"
    /\ m_equation = "0"
    /\ m_dimension = 2
    /\ graph_id = 1
    /\ offValue = F(0)
    /\ compiled = TRUE
    /\ loop_x = 0
    /\ loop_y = 0
    /\ index = -1
    /\ last_height = One \div 2
    /\ zTrace = <<>>
    /\ m_heightData = <<>>
    /\ m_positions = <<>>
    /\ m_colors = <<>>
    /\ m_normals = <<>>
    /\ generated = [i \in GraphIds |-> <<>>]
    /\ m_heightTexture = <<>>
    /\ m_VBO = <<>>
    /\ m_IBO = <<>>

\* The state before an OBJModel is constructed from a file name, given what
\* the file system holds at that name and at the resolved material path.
OBJInit(names, opens, files, mtlOpens, mtlFiles) ==
    /\ o_pc = "start"
    /\ fileName \in names
    /\ fileExists \in opens
    /\ file \in files
    /\ mtlExists \in mtlOpens
    /\ mtlFile \in (IF mtlExists THEN mtlFiles ELSE {<<>>})
    /\ lineNo = 0
    /\ m_Verts = <<>>
    /\ m_VertTexts = <<>>
    /\ m_VertNorms = <<>>
    /\ m_Faces = <<>>
    /\ m_MaterialFile = <<>>
    /\ m_ObjectPath = <<>>
    /\ pop_i = 0
    /\ vertices = <<>>
    /\ textReads = <<>>
    /\ obj_VBO = <<>>
    /\ obj_IBO = <<>>
    /\ texture = <<>>

GraphNext == Construct \/ SampleRow \/ ExportRaster \/ BuildMesh

-----------------------------------------------------------------------------
(* main: VertexSpecification and Draw *)

\* commandObject is constructed and asked for its texture; the vectors VBOs
\* and IBOs are declared and the loop over gEquations starts.
StartGraphs ==
    /\ main_pc = "object"
    /\ o_pc = "textured"
    /\ VBOs' = <<>>
    /\ IBOs' = <<>>
    /\ graph_i' = 0
    /\ main_pc' = "graphs"
    /\ UNCHANGED <<gEquations, gRESOLUTION, gFaceCount, vertexData,
                   indexBufferData, drawCount>>
    /\ UNCHANGED <<graphVars, objVars, peerVars>>

\* The loop test holds: Graph g(gEquations[i], gRESOLUTION, i + 1) is
\* entered with fresh members.
EnterGraph ==
    /\ main_pc = "graphs"
    /\ pc = "idle"
    /\ graph_i < Len(gEquations)
    /\ m_equation' = gEquations[graph_i + 1]
    /\ m_dimension' = gRESOLUTION
    /\ graph_id' = graph_i + 1
    /\ offValue' = F(0)
    /\ compiled' = TRUE
    /\ loop_x' = 0
    /\ loop_y' = 0
    /\ index' = -1
    /\ last_height' = One \div 2
    /\ zTrace' = <<>>
    /\ m_heightData' = <<>>
    /\ m_positions' = <<>>
    /\ m_colors' = <<>>
    /\ m_normals' = <<>>
    /\ m_heightTexture' = <<>>
    /\ m_VBO' = <<>>
    /\ m_IBO' = <<>>
    /\ pc' = "start"
    /\ UNCHANGED <<generated, objVars, peerVars, mainVars>>

\* The rest of the loop body: the buffers of g are pushed, g is destroyed
\* and i is incremented.
PushBuffers ==
    /\ main_pc = "graphs"
    /\ pc = "done"
    /\ VBOs' = Append(VBOs, m_VBO)
    /\ IBOs' = Append(IBOs, m_IBO)
    /\ graph_i' = graph_i + 1
    /\ pc' = "idle"
    /\ UNCHANGED <<m_equation, m_dimension, graph_id, compiled, offValue,
                   loop_x, loop_y, index, last_height, zTrace, m_heightData,
                   m_positions, m_colors, m_normals, generated,
                   m_heightTexture, m_VBO, m_IBO>>
    /\ UNCHANGED <<main_pc, gEquations, gRESOLUTION, gFaceCount, vertexData,
                   indexBufferData, drawCount>>
    /\ UNCHANGED <<objVars, peerVars>>

\* gFaceCount += IBOs[i].size() for i from the given one on
RECURSIVE FaceCountLoop(_, _, _)
FaceCountLoop(count, ibos, i) ==
    IF i >= Len(ibos) THEN count
    ELSE FaceCountLoop(count + Len(ibos[i + 1]), ibos, i + 1)

\* vertexData.insert(vertexData.end(), VBOs[i].begin(), VBOs[i].end()) for i
\* from the given one on
RECURSIVE VertexDataLoop(_, _, _)
VertexDataLoop(data, vbos, i) ==
    IF i >= Len(vbos) THEN data
    ELSE VertexDataLoop(data \o vbos[i + 1], vbos, i + 1)

\* IBOGraph[i] = IBOGraph[i] + offset for every i
ShiftedBy(ibo, offset) == [i \in 1..Len(ibo) |-> ibo[i] + offset]

\* The loop over j that appends the shifted indices of each Graph and adds
\* its number of records to offset.
RECURSIVE IndexDataLoop(_, _, _, _, _)
IndexDataLoop(data, offset, vbos, ibos, j) ==
    IF j >= Len(ibos) THEN data
    ELSE IndexDataLoop(data \o ShiftedBy(ibos[j + 1], offset),
                       offset + Len(vbos[j + 1]) \div 12,
                       vbos, ibos, j + 1)

\* The loop over gEquations is left; the face count is computed and the
\* buffers are merged and handed to OpenGL.
MergeBuffers ==
    /\ main_pc = "graphs"
    /\ pc = "idle"
    /\ graph_i >= Len(gEquations)
    /\ gFaceCount' = FaceCountLoop(Len(obj_IBO), IBOs, 0) \div 3
    /\ vertexData' = VertexDataLoop(obj_VBO, VBOs, 0)
    /\ indexBufferData' =
          IndexDataLoop(obj_IBO, Len(obj_VBO) \div 12, VBOs, IBOs, 0)
    /\ main_pc' = "specified"
    /\ UNCHANGED <<gEquations, gRESOLUTION, graph_i, VBOs, IBOs, drawCount>>
    /\ UNCHANGED <<graphVars, objVars, peerVars>>

\* glDrawElements(GL_TRIANGLES, gFaceCount*3, GL_UNSIGNED_INT, 0)
Draw ==
    /\ main_pc = "specified"
    /\ drawCount' = gFaceCount * 3
    /\ main_pc' = "drawn"
    /\ UNCHANGED <<gEquations, gRESOLUTION, graph_i, VBOs, IBOs, gFaceCount,
                   vertexData, indexBufferData>>
    /\ UNCHANGED <<graphVars, objVars, peerVars>>


OBJNext ==
    \/ OpenFile
    \/ ReadLine
    \/ ResolvePaths
    \/ PopulateStep
    \/ PopulateFault
    \/ PopulateEnd
    \/ getTexture

\* Every equation of the model, with every pattern of off-base samples, at the
\* small resolutions, as the first surface (id 1).
Init ==
    /\ GraphInit(2..MaxDim, Equations, {1})
    /\ OBJIdle
    /\ PeerIdle
    /\ MainIdle

Next == GraphNext

Spec == Init /\ [][Next]_vars

\* The constructor for the equations with a single evaluation result, for
\* every surface id, at the small resolutions and at a resolution whose step
\* is within the loop tolerance.
InitLoop ==
    /\ GraphInit((2..MaxDim) \cup {LargeDim}, {"0", "x+*"}, GraphIds)
    /\ OBJIdle
    /\ PeerIdle
    /\ MainIdle

SpecLoop == InitLoop /\ [][Next]_vars

\* The step 10.0/(n-1.0) and the multiples of it that the loops add up are
\* floats when n - 1 is a power of two, or five times one.
ExactDims ==
    {n \in 2..MaxExactDim : \E a \in 0..4, b \in 0..1 : n - 1 = 2^a * 5^b}

InitExact ==
    /\ GraphInit(ExactDims, Equations \cup {"x^2+y^2"}, {1})
    /\ OBJIdle
    /\ PeerIdle
    /\ MainIdle

SpecExact == InitExact /\ [][GraphNext]_vars

\* Two Graphs with a single evaluation result each, constructed in any
\* order, the second between any two steps of the first.
InitPair ==
    /\ GraphInit(2..MaxDim, {"0", "x+*"}, GraphIds)
    /\ PeerInit(2..MaxDim, {"0", "x+*"}, GraphIds)
    /\ MainIdle
    /\ OBJIdle

PairNext == GraphNext \/ PeerConstruct

SpecPair == InitPair /\ [][PairNext]_vars

\* The chunks of the polygon files of the model.
tok_0 == <<"0">>
tok_1 == <<"1">>
tok_nan == <<"n", "a", "n">>
tok_m == <<"m">>
tok_t == <<"t">>

\* A path with a directory.
PathInDir == <<"d", "/", "g">>

\* The v lines and the vt lines of the mesh family.
VLines == {Line(<<dir_v, x, tok_0, tok_0>>) : x \in {tok_0, tok_1, tok_nan}}
VtLines == {Line(<<dir_vt, s, tok_0>>) : s \in {tok_0, tok_1}}

\* Its index groups: with and without a texture index.
GroupTokens ==
    {<<"1", "/", "1", "/", "1">>, <<"2", "/", "1", "/", "1">>,
     <<"1", "/", "/", "1">>}

\* The mesh family: MaxVerts v lines, a vt line and an f line of up to
\* MaxGroups groups.
MeshFiles ==
    {vs \o <<vt, Line(<<dir_f>> \o gs)>> :
        vs \in SeqsOver(VLines, MaxVerts, MaxVerts),
        vt \in VtLines,
        gs \in SeqsOver(GroupTokens, 1, MaxGroups)}

InitMesh ==
    /\ OBJInit({PathInDir}, {TRUE}, MeshFiles, {FALSE}, {<<>>})
    /\ GraphIdle
    /\ PeerIdle
    /\ MainIdle

SpecMesh == InitMesh /\ [][OBJNext]_vars

\* The characters of a free-form index group.
GroupChars == {"1", "/", "a"}

\* The parse family: one vertex, one texture coordinate and an f line with
\* one group, which is any string over GroupChars.
ParseFiles ==
    {<<Line(<<dir_v, tok_0, tok_0, tok_0>>), Line(<<dir_vt, tok_0, tok_0>>),
       Line(<<dir_f, chunk>>)>> : chunk \in Strings(GroupChars, MaxChunkLen)}

InitParse ==
    /\ OBJInit({PathInDir}, {TRUE}, ParseFiles, {FALSE}, {<<>>})
    /\ GraphIdle
    /\ PeerIdle
    /\ MainIdle

SpecParse == InitParse /\ [][OBJNext]_vars

\* The path family: every file name over PathChars, a file that may be
\* missing, with or without a mtllib line, and a material file that may be
\* missing, with or without a map_Kd line.
PathChars == {"d", "/"}

PathFiles ==
    {<<>>,
     <<Line(<<dir_mtllib, tok_m>>)>>,
     <<Line(<<dir_mtllib, tok_m>>), Line(<<dir_v, tok_0, tok_0, tok_0>>),
       Line(<<dir_vt, tok_0, tok_0>>),
       Line(<<dir_f, <<"1", "/", "1", "/", "1">>,
              <<"2", "/", "1", "/", "1">> >>)>>}

MaterialFiles ==
    {<<>>,
     <<Line(<<dir_map_Kd, tok_t>>)>>,
     <<Line(<<dir_map_Kd>>), Line(<<<<"K", "d">>, tok_1>>),
       Line(<<dir_map_Kd, tok_t, tok_m>>)>>,
     <<Line(<<<<"#">>, dir_map_Kd, tok_t>>)>>}

InitPath ==
    /\ OBJInit(Strings(PathChars, MaxPathLen), BOOLEAN, PathFiles,
               BOOLEAN, MaterialFiles)
    /\ GraphIdle
    /\ PeerIdle
    /\ MainIdle

SpecPath == InitPath /\ [][OBJNext]_vars

\* The line family: a v line followed by up to MaxLines lines, among them
\* lines with comments, empty lines and lines of unknown directives.
tok_hash == <<"#">>

CommentedLines ==
    {Line(<<dir_v, tok_1, tok_0, tok_0, tok_hash, tok_1>>),
     Line(<<dir_v, tok_0, tok_0, <<"0", "#", "1">>, tok_1>>),
     Line(<<tok_hash, dir_v, tok_1, tok_1, tok_1>>),
     Line(<<dir_f, <<"1", "/", "1", "/", "1">>, <<"#", "a">> >>),
     Line(<<dir_mtllib, tok_m, tok_hash, tok_t>>)}

UnknownLines ==
    {<<>>,
     Line(<<<<"o">>, dir_v, tok_1>>),
     Line(<<<<"v", "x">>, tok_1, tok_1, tok_1>>),
     Line(<<<<"u", "s", "e", "m", "t", "l">>, tok_m>>)}

PlainLines ==
    {Line(<<dir_vt, tok_0, tok_0>>), Line(<<dir_vn, tok_0, tok_1, tok_0>>)}

LineFiles ==
    {<<Line(<<dir_v, tok_0, tok_0, tok_0>>)>> \o ls :
        ls \in SeqsOver(CommentedLines \cup UnknownLines \cup PlainLines,
                        1, MaxLines)}

InitLines ==
    /\ OBJInit({PathInDir}, {TRUE}, LineFiles, {FALSE}, {<<>>})
    /\ GraphIdle
    /\ PeerIdle
    /\ MainIdle

SpecLines == InitLines /\ [][OBJNext]_vars

MainNext ==
    \/ OBJNext
    \/ StartGraphs
    \/ EnterGraph
    \/ GraphNext
    \/ PushBuffers
    \/ MergeBuffers
    \/ Draw

\* The polygon files of the merge family: two v lines, a vt line and an f
\* line of up to MaxGroups groups with texture index, or of one group
\* without.
MergeFiles ==
    {<<Line(<<dir_v, tok_0, tok_0, tok_0>>), Line(<<dir_v, tok_1, tok_0, tok_0>>),
       Line(<<dir_vt, tok_0, tok_0>>), Line(<<dir_f>> \o gs)>> :
        gs \in SeqsOver({<<"1", "/", "1", "/", "1">>,
                         <<"2", "/", "1", "/", "1">>}, 1, MaxGroups)
               \cup {<< <<"1", "/", "/", "1">> >>}}

\* main with one to MaxEquations equations, each the constant or the
\* rejected string, at a small resolution, and a polygon file that opens or
\* does not.
InitMerge ==
    /\ main_pc = "object"
    /\ gEquations \in SeqsOver({"0", "x+*"}, 1, MaxEquations)
    /\ gRESOLUTION \in 2..MaxMergeDim
    /\ graph_i = 0
    /\ VBOs = <<>>
    /\ IBOs = <<>>
    /\ gFaceCount = 0
    /\ vertexData = <<>>
    /\ indexBufferData = <<>>
    /\ drawCount = 0
    /\ OBJInit({PathInDir}, {TRUE, FALSE}, MergeFiles, {FALSE}, {<<>>})
    /\ GraphIdle
    /\ PeerIdle

SpecMerge == InitMerge /\ [][MainNext]_vars

-----------------------------------------------------------------------------
(* Properties of the surface mesher *)

\* The index of the vertex at grid position (x, y).
Vtx(x, y) == x + y * m_dimension

\* The sample at (x, y) is not a sentinel.
ValidAt(x, y) == HeightAt(m_heightData, x, y, m_dimension) >= 0

\* The corner sets of the triangles of an index buffer.
TriangleSets(IBO) ==
    { {IBO[3 * k + 1], IBO[3 * k + 2], IBO[3 * k + 3]} :
        k \in 0..(Len(IBO) \div 3 - 1) }

\* The corners of the two candidate triangles of the cell at (x, y).
Corners1(x, y) == {<<x, y>>, <<x + 1, y>>, <<x, y + 1>>}
Corners2(x, y) == {<<x + 1, y + 1>>, <<x + 1, y>>, <<x, y + 1>>}

CornersValid(cs) == \A c \in cs : ValidAt(c[1], c[2])
Emitted(cs, ts) == {Vtx(c[1], c[2]) : c \in cs} \in ts

Cells == (0..(m_dimension - 2)) \X (0..(m_dimension - 2))

\* C1: once the mesh is built, each of the two candidate triangles of every
\* cell is in the index buffer exactly when its own three corner samples are
\* non-sentinel, and no index of the buffer names a sentinel sample.
C1_TriangleIffCornersValid ==
    pc = "done" =>
        /\ \E ts \in {TriangleSets(m_IBO)} : \A c \in Cells :
              /\ Emitted(Corners1(c[1], c[2]), ts)
                    <=> CornersValid(Corners1(c[1], c[2]))
              /\ Emitted(Corners2(c[1], c[2]), ts)
                    <=> CornersValid(Corners2(c[1], c[2]))
        /\ \A i \in 1..Len(m_IBO) : m_heightData[m_IBO[i] + 1] >= 0

\* A built mesh with a cell of which one triangle is emitted and the other is
\* suppressed.
C1_Witness ==
    /\ pc = "done"
    /\ \E c \in Cells :
          /\ ~Emitted(Corners1(c[1], c[2]), TriangleSets(m_IBO))
          /\ Emitted(Corners2(c[1], c[2]), TriangleSets(m_IBO))

\* The candidate triangles whose three corners are valid, as (cell, 1 or 2).
ValidTriangles ==
    { t \in Cells \X {1, 2} :
        CornersValid(IF t[2] = 1 THEN Corners1(t[1][1], t[1][2])
                                 ELSE Corners2(t[1][1], t[1][2])) }

\* C2: once the mesh is built, the index buffer holds three indices for each
\* triangle with three valid corners, and every index is below the vertex
\* count dimension*dimension, which is the number of 12-float records of the
\* vertex buffer.
C2_IndexBufferWellFormed ==
    pc = "done" =>
        /\ Len(m_IBO) = 3 * Cardinality(ValidTriangles)
        /\ Len(m_IBO) % 3 = 0
        /\ \A i \in 1..Len(m_IBO) :
              /\ m_IBO[i] >= 0
              /\ m_IBO[i] < m_dimension * m_dimension
              /\ m_IBO[i] < Len(m_VBO) \div 12

\* A built mesh that has triangles, though not all of the grid's.
C2_Witness ==
    /\ pc = "done"
    /\ Len(m_IBO) > 0
    /\ Len(m_IBO) < 6 * (m_dimension - 1) * (m_dimension - 1)

\* The normal stored for the vertex at (x, y).
NormalOf(x, y) ==
    << m_normals[3 * Vtx(x, y) + 1], m_normals[3 * Vtx(x, y) + 2],
       m_normals[3 * Vtx(x, y) + 3] >>

OnBoundary(x, y) ==
    x = 0 \/ y = 0 \/ x = m_dimension - 1 \/ y = m_dimension - 1

\* One of the four axis neighbours of the interior vertex (x, y) is a sentinel.
NeighbourSentinel(x, y) ==
    \/ ~ValidAt(x - 1, y) \/ ~ValidAt(x + 1, y)
    \/ ~ValidAt(x, y - 1) \/ ~ValidAt(x, y + 1)

\* num/sqrt(den2) squared and summed over the components is 1.
UnitLength(nv) ==
    /\ \A i \in 1..3 : nv[i].den2 > 0 /\ nv[i].den2 = nv[1].den2
    /\ nv[1].num * nv[1].num + nv[2].num * nv[2].num + nv[3].num * nv[3].num
          = nv[1].den2

\* C4: once the mesh is built, the normal of a vertex is the zero vector
\* exactly when the vertex is on the first or last row or column or one of
\* its four axis neighbours is a sentinel; every other normal has unit length.
C4_NormalZeroIffBoundaryOrSentinelNeighbour ==
    pc = "done" =>
        \A x, y \in 0..(m_dimension - 1) :
            IF OnBoundary(x, y) \/ NeighbourSentinel(x, y)
            THEN NormalOf(x, y) = <<Zero, Zero, Zero>>
            ELSE /\ NormalOf(x, y) # <<Zero, Zero, Zero>>
                 /\ UnitLength(NormalOf(x, y))

\* A built mesh with a single sentinel, all of whose interior axis neighbours
\* (there is one at least) have the zero normal, and with an interior vertex
\* whose normal has unit length.
C4_Witness ==
    /\ pc = "done"
    /\ Cardinality({i \in 1..Len(m_heightData) : m_heightData[i] < 0}) = 1
    /\ \E x, y \in 1..(m_dimension - 2) :
          /\ ~ValidAt(x, y - 1)
          /\ NormalOf(x, y) = <<Zero, Zero, Zero>>
    /\ \E x, y \in 1..(m_dimension - 2) : UnitLength(NormalOf(x, y))

\* The height the claim gives for an evaluation result z.
ClaimedHeight(z) ==
    IF z.nan \/ z.v < -z_bound \/ z.v > z_bound
    THEN -One
    ELSE ((z.v + z_bound) * One) \div (z_bound * 2)

\* C5: every stored height is determined by the sample's own evaluation
\* result: the sentinel for NaN and for a result beyond the bound on either
\* side, (z + 50)/100 in [0,1] otherwise.
C5_HeightFromOwnResultOnly ==
    /\ Len(m_heightData) = Len(zTrace)
    /\ \A i \in 1..Len(m_heightData) :
          /\ m_heightData[i] = ClaimedHeight(zTrace[i])
          /\ m_heightData[i] = -One \/ m_heightData[i] \in 0..One

\* A too-high sample was stored after a sample that left a valid height in
\* last_height.
C5_Witness ==
    /\ Len(m_heightData) >= 2
    /\ \E i \in 2..Len(m_heightData) :
          /\ ~zTrace[i].nan
          /\ zTrace[i].v > z_bound
          /\ m_heightData[i - 1] >= 0
          /\ last_height >= 0

\* The number of completed iterations of the outer loop.
RowsDone == (loop_y - LoopStart(m_dimension)) \div LoopStep

\* C3: each completed row of the sampling loops holds exactly dimension
\* samples, the samples never exceed the dimension*dimension floats of the
\* height buffer, the loops end with exactly dimension*dimension samples and
\* a vertex buffer of as many 12-float records, and for the equation "0" all
\* heights are 0.5.
C3_ExactlyNSamplesPerAxis ==
    /\ pc \in {"sampling", "sampled", "exported", "done"} =>
          /\ Len(m_heightData) = m_dimension * RowsDone
          /\ Len(m_heightData) <= m_dimension * m_dimension
    /\ pc \in {"sampled", "exported", "done"} =>
          /\ RowsDone = m_dimension
          /\ Len(m_heightData) = m_dimension * m_dimension
    /\ pc = "done" =>
          /\ Len(m_VBO) = 12 * m_dimension * m_dimension
          /\ m_equation = "0" =>
                \A i \in 1..Len(m_heightData) : m_heightData[i] = One \div 2

\* C6: when the equation did not compile, no vertex buffer, index buffer or
\* raster file is produced for it.
C6_NoSurfaceForBadEquation ==
    ~compiled =>
        /\ m_VBO = <<>>
        /\ m_IBO = <<>>
        /\ generated[graph_id] = <<>>

-----------------------------------------------------------------------------
(* Properties of the polygon file loader *)

\* The constructor has returned.
Constructed == o_pc \in {"done", "textured"}

\* The chunks after the directive on the f lines of the given lines, in
\* file order.
RECURSIVE FaceChunks(_)
FaceChunks(lines) ==
    IF lines = <<>> THEN <<>>
    ELSE LET chunks == Chunks(StripComment(lines[Len(lines)]), 1, <<>>)
         IN  FaceChunks(SubSeq(lines, 1, Len(lines) - 1))
                \o (IF chunks # <<>> /\ chunks[1] = dir_f
                    THEN Tail(chunks) ELSE <<>>)

\* A decimal integer: digits and nothing else.
IsInteger(s) == s # <<>> /\ \A i \in 1..Len(s) : s[i] \in Digits

\* The positions of the '/' of a group.
Slashes(chunk) == {i \in 1..Len(chunk) : chunk[i] = "/"}

SetMin(S) == CHOOSE m \in S : \A o \in S : m <= o
SetMax(S) == CHOOSE m \in S : \A o \in S : m >= o

\* The position part of a group is what precedes its first '/', the normal
\* part what follows its last '/', the texture part what lies between the
\* first two of them.
PositionPart(chunk) ==
    IF Slashes(chunk) = {} THEN chunk
    ELSE SubSeq(chunk, 1, SetMin(Slashes(chunk)) - 1)

NormalPart(chunk) ==
    IF Slashes(chunk) = {} THEN chunk
    ELSE SubSeq(chunk, SetMax(Slashes(chunk)) + 1, Len(chunk))

TexturePart(chunk) ==
    IF Cardinality(Slashes(chunk)) < 2 THEN <<>>
    ELSE LET first == SetMin(Slashes(chunk))
         IN  SubSeq(chunk, first + 1,
                    SetMin(Slashes(chunk) \ {first}) - 1)

\* No numeric token of the group is malformed.
WellFormedGroup(chunk) ==
    /\ IsInteger(PositionPart(chunk))
    /\ IsInteger(NormalPart(chunk))
    /\ TexturePart(chunk) = <<>> \/ IsInteger(TexturePart(chunk))

\* C7: once a line with a malformed numeric token in a face index group is
\* read, parsing has failed: the constructor has thrown, and no index was
\* derived from the file.
C7_MalformedGroupFailsParse ==
    (\E k \in DOMAIN FaceChunks(SubSeq(file, 1, lineNo)) :
        ~WellFormedGroup(FaceChunks(SubSeq(file, 1, lineNo))[k]))
        => (o_pc = "threw" /\ obj_IBO = <<>>)

\* Group k (from 0) of the face list, and the record its index entry names.
GroupPos(k) == m_Faces[3 * k + 1]
GroupText(k) == m_Faces[3 * k + 2]
NumRecords == Len(obj_VBO) \div 12
RecordAt(r) ==
    VertexData(obj_VBO[12 * r + 1], obj_VBO[12 * r + 2], obj_VBO[12 * r + 3],
               obj_VBO[12 * r + 11], obj_VBO[12 * r + 12])

\* The groups populateBuffers has expanded.
GroupsDone == 0..(Len(obj_IBO) - 1)

\* The texture index of group k is absent.
TextureAbsent(k) == GroupText(k) = -1

\* C8: a group without texture index, once expanded, has a record with the
\* position of its position index and the texture coordinate (0,0), and no
\* element of m_VertTexts was read for it.
C8_AbsentTextureIsZeroAndUnread ==
    \A k \in GroupsDone : TextureAbsent(k) =>
        /\ RecordAt(obj_IBO[k + 1]).x = m_Verts[3 * GroupPos(k) + 1]
        /\ RecordAt(obj_IBO[k + 1]).y = m_Verts[3 * GroupPos(k) + 2]
        /\ RecordAt(obj_IBO[k + 1]).z = m_Verts[3 * GroupPos(k) + 3]
        /\ RecordAt(obj_IBO[k + 1]).s = F(0)
        /\ RecordAt(obj_IBO[k + 1]).t = F(0)
        /\ \A i \in DOMAIN textReads : textReads[i].group # k

\* The (position, texcoord) a group expands to: the texture coordinate of
\* its texture index, (0,0) without one.
Expanded(k) ==
    VertexData(m_Verts[3 * GroupPos(k) + 1], m_Verts[3 * GroupPos(k) + 2],
               m_Verts[3 * GroupPos(k) + 3],
               IF TextureAbsent(k) THEN F(0)
               ELSE m_VertTexts[2 * GroupText(k) + 1],
               IF TextureAbsent(k) THEN F(0)
               ELSE m_VertTexts[2 * GroupText(k) + 2])

\* C9: after populateBuffers no two records have the same (x,y,z,s,t); the
\* index entry of every group names the first record that is the group's
\* expansion; groups with the same expansion have the same index entry.
C9_RecordsDistinctAndShared ==
    Constructed =>
        /\ \A r1, r2 \in 0..(NumRecords - 1) :
              RecordAt(r1) = RecordAt(r2) => r1 = r2
        /\ \A k \in GroupsDone :
              /\ obj_IBO[k + 1] < NumRecords
              /\ RecordAt(obj_IBO[k + 1]) = Expanded(k)
              /\ \A r \in 0..(obj_IBO[k + 1] - 1) : RecordAt(r) # Expanded(k)
        /\ \A k1, k2 \in GroupsDone :
              Expanded(k1) = Expanded(k2) => obj_IBO[k1 + 1] = obj_IBO[k2 + 1]

\* The text of a path up to and including its final '/': empty without '/'.
DirectoryPrefix(name) ==
    IF Slashes(name) = {} THEN <<>>
    ELSE SubSeq(name, 1, SetMax(Slashes(name)))

\* The material filename the polygon file names: the last chunk of its last
\* mtllib line, "" without one.
RECURSIVE MaterialName(_)
MaterialName(lines) ==
    IF lines = <<>> THEN <<>>
    ELSE LET chunks == Chunks(StripComment(lines[Len(lines)]), 1, <<>>)
         IN  IF Len(chunks) >= 2 /\ chunks[1] = dir_mtllib
             THEN chunks[Len(chunks)]
             ELSE MaterialName(SubSeq(lines, 1, Len(lines) - 1))

\* The argument of the first map_Kd line of the material file, as <<arg>>.
RECURSIVE FirstMapKd(_)
FirstMapKd(lines) ==
    IF lines = <<>> THEN <<>>
    ELSE IF MapKdArgument(lines[1]) # <<>> THEN MapKdArgument(lines[1])
    ELSE FirstMapKd(Tail(lines))

\* C10: the object path is the directory prefix of the file name, the
\* resolved material path is that prefix followed by the material filename,
\* and getTexture returns that prefix followed by the map_Kd argument: the
\* bare filename and the bare argument when the file name has no '/'.
C10_MaterialPathPrefixed ==
    /\ o_pc \in {"populate", "done", "textured", "crashed"} =>
          /\ m_ObjectPath = DirectoryPrefix(fileName)
          /\ m_MaterialFile = DirectoryPrefix(fileName)
                                 \o MaterialName(SubSeq(file, 1, lineNo))
    /\ (o_pc = "textured" /\ mtlExists /\ FirstMapKd(mtlFile) # <<>>) =>
          texture = <<DirectoryPrefix(fileName) \o FirstMapKd(mtlFile)[1]>>

-----------------------------------------------------------------------------
(* Further properties of the surface mesher *)

\* The evaluation of sample i (from 1) failed: the evaluator raises nothing,
\* a failed evaluation delivers NaN.
EvaluationFailed(i) == zTrace[i].nan

\* The alpha stored for sample i.
AlphaOf(i) == m_colors[4 * i]

\* The samples that are taken and stored.
SamplesTaken == 1..Min(Len(zTrace), Len(m_heightData))

\* C11: a sample whose evaluation failed has the height 0.5 (and so is no
\* sentinel) and the alpha 1.0 - 0.1; a sample that evaluated normally has
\* the alpha 1.0.
C11_FailedSampleIsSoftInvalid ==
    \A i \in SamplesTaken :
        IF EvaluationFailed(i)
        THEN /\ m_heightData[i] = One \div 2
             /\ AlphaOf(i) = One - One \div 10
        ELSE AlphaOf(i) = One

\* The vertex at (x, y) is inside the grid and its four axis neighbours are
\* no sentinels.
InteriorWithValidNeighbours(x, y) ==
    /\ x \in 1..(m_dimension - 2)
    /\ y \in 1..(m_dimension - 2)
    /\ ValidAt(x - 1, y) /\ ValidAt(x + 1, y)
    /\ ValidAt(x, y - 1) /\ ValidAt(x, y + 1)

\* The central differences at (x, y) of the un-normalized heights
\* h * (z_bound*2) - z_bound, divided by twice the grid step 10/(n-1) and
\* held times 2 * 10.
SlopeX(x, y) ==
    ((HeightAt(m_heightData, x + 1, y, m_dimension)
        - HeightAt(m_heightData, x - 1, y, m_dimension))
        * (z_bound * 2) * (m_dimension - 1)) \div One

SlopeY(x, y) ==
    ((HeightAt(m_heightData, x, y + 1, m_dimension)
        - HeightAt(m_heightData, x, y - 1, m_dimension))
        * (z_bound * 2) * (m_dimension - 1)) \div One

\* The tangent vectors (1, dz/dx, 0) and (0, dz/dy, 1), in the same unit.
TangentX(x, y) == <<2 * 10, SlopeX(x, y), 0>>
TangentY(x, y) == <<0, SlopeY(x, y), 2 * 10>>

\* The cross product a x b of the definition.
CrossProduct(a, b) ==
    <<a[2] * b[3] - a[3] * b[2],
      a[3] * b[1] - a[1] * b[3],
      a[1] * b[2] - a[2] * b[1]>>

\* The stored normal nv is the vector c divided by its length: nv has unit
\* length and its components are those of c times one positive factor.
IsNormalized(nv, c) ==
    /\ UnitLength(nv)
    /\ \A i, j \in 1..3 : nv[i].num * c[j] = nv[j].num * c[i]
    /\ nv[1].num * c[1] + nv[2].num * c[2] + nv[3].num * c[3] > 0

GridPoints == (0..(m_dimension - 1)) \X (0..(m_dimension - 1))

\* C12 as stated: the normal of every interior vertex with valid axis
\* neighbours is the normalized cross product of (1, dz/dx, 0) with
\* (0, dz/dy, 1), in that order.
C12_NormalIsTangentXCrossTangentY ==
    pc = "done" =>
        \A p \in GridPoints : InteriorWithValidNeighbours(p[1], p[2]) =>
            IsNormalized(NormalOf(p[1], p[2]),
                         CrossProduct(TangentX(p[1], p[2]),
                                      TangentY(p[1], p[2])))

\* C12, amended: the normal of every interior vertex with valid axis
\* neighbours is the normalized cross product of (0, dz/dy, 1) with
\* (1, dz/dx, 0), in that order: (-dz/dx, 1, -dz/dy) over its length.
C12_NormalIsTangentYCrossTangentX ==
    pc = "done" =>
        \A p \in GridPoints : InteriorWithValidNeighbours(p[1], p[2]) =>
            IsNormalized(NormalOf(p[1], p[2]),
                         CrossProduct(TangentY(p[1], p[2]),
                                      TangentX(p[1], p[2])))

\* A built mesh with an interior vertex, all of whose axis neighbours are
\* valid, on a slope along x.
C12_Witness ==
    /\ pc = "done"
    /\ \E p \in GridPoints :
          /\ InteriorWithValidNeighbours(p[1], p[2])
          /\ SlopeX(p[1], p[2]) # 0
          /\ NormalOf(p[1], p[2])[1].num # 0

\* C14: with a second Graph constructed before, after or between the steps
\* of the first, the raster file and the buffers of each are what they are
\* when it is built alone: the file of its id holds its own raster, and the
\* buffers are those of its own samples.
C14_SurfacesAreIndependent ==
    /\ pc = "done" =>
          /\ generated[graph_id]
                = RasterLines(m_equation, m_dimension, m_heightData)
          /\ m_heightData = UniformHeights(m_equation, m_dimension)
          /\ m_VBO = VertexLoop(m_positions,
                                calculateNormals(m_heightData, m_dimension),
                                m_colors, 0, <<>>)
          /\ m_IBO = IndexLoop(m_heightData, m_dimension, 0, <<>>)
    /\ peer_pc = "done" =>
          generated[peer_id]
             = RasterLines(peer_equation, peer_dimension,
                           UniformHeights(peer_equation, peer_dimension))

\* round(v * 255) for a v >= 0 held times One: the integer nearest to it,
\* the upper one of two that are equally near.
Round255(v) ==
    CHOOSE r \in 0..(10 * 255) :
        2 * One * r - One <= 2 * v * 255 /\ 2 * v * 255 < 2 * One * r + One

\* C15: the exported raster file has the header lines P3, the comment with
\* the equation, "n n" and 255, then n*n pixel lines in grid order, each
\* three times round(clamp(height,0,10) * 255): 0 for a sentinel, and a
\* value in 0..255 for a height in [0,1].
C15_RasterFileFormat ==
    pc \in {"exported", "done"} =>
        \E f \in {generated[graph_id]} :
            /\ Len(f) = 4 + m_dimension * m_dimension
            /\ f[1] = <<"P3">>
            /\ f[2] = <<"# Generated .ppm file from equation z = ",
                        m_equation>>
            /\ f[3] = <<m_dimension, m_dimension>>
            /\ f[4] = <<255>>
            /\ \A i \in 1..(m_dimension * m_dimension) :
                  \E r \in {Round255(Clamp(m_heightData[i], 0, 10 * One))} :
                      /\ f[4 + i] = <<r, r, r>>
                      /\ m_heightData[i] < 0 => r = 0
                      /\ (m_heightData[i] >= 0 /\ m_heightData[i] <= One)
                            => r \in 0..255

\* An exported surface with a sentinel sample, written as 0, and a sample of
\* height 0.5, whose 127.5 is rounded up to 128.
C15_Witness ==
    /\ pc = "exported"
    /\ \E i, j \in 1..(m_dimension * m_dimension) :
          /\ m_heightData[i] < 0
          /\ generated[graph_id][4 + i] = <<0, 0, 0>>
          /\ m_heightData[j] = One \div 2
          /\ generated[graph_id][4 + j] = <<128, 128, 128>>

-----------------------------------------------------------------------------
(* Further properties of the polygon file loader *)

\* The group has the form p/t/n or p//n with decimal integers p, t, n.
IndexGroup(chunk) ==
    Cardinality(Slashes(chunk)) = 2 /\ WellFormedGroup(chunk)

\* The value that stands for an absent texture index in the face list.
NO_TEXTURE == -1

\* The face chunks of the lines read so far.
ChunksRead == FaceChunks(SubSeq(file, 1, lineNo))

objMembers == <<m_Verts, m_VertTexts, m_VertNorms, m_Faces, m_MaterialFile,
                m_ObjectPath, obj_VBO, obj_IBO>>

\* What getTexture is to return: the directory prefix of the polygon file
\* followed by the argument of the first map_Kd line of the material file,
\* "" when the material file does not open or has no such line.
ExpectedTexture ==
    IF mtlExists /\ FirstMapKd(mtlFile) # <<>>
    THEN DirectoryPrefix(fileName) \o FirstMapKd(mtlFile)[1]
    ELSE <<>>

\* C16: getTexture returns the object directory followed by the first
\* map_Kd argument of the material file, or "" without an error, and
\* changes no member of the model.
C16_TextureOfFirstMapKd ==
    /\ [](o_pc = "textured" => texture = <<ExpectedTexture>>)
    /\ [][(o_pc = "done" /\ o_pc' = "textured") => UNCHANGED objMembers]_vars

\* C17: when the polygon file does not open, the constructor neither throws
\* nor faults, each of its steps can be taken, and the model it returns has
\* an empty vertex buffer and an empty index buffer.
C17_MissingFileGivesEmptyModel ==
    ~fileExists =>
        /\ o_pc \notin {"threw", "crashed"}
        /\ o_pc = "populate" => pop_i >= Len(m_Faces)
        /\ Constructed => (obj_VBO = <<>> /\ obj_IBO = <<>>)

\* A model constructed from a file that holds faces but does not open.
C17_Witness ==
    /\ ~fileExists
    /\ FaceChunks(file) # <<>>
    /\ o_pc = "done"
    /\ obj_VBO = <<>>
    /\ obj_IBO = <<>>

\* The text of a line before its first '#'.
BeforeHash(line) ==
    IF \E i \in 1..Len(line) : line[i] = "#"
    THEN SubSeq(line, 1,
                SetMin({i \in 1..Len(line) : line[i] = "#"}) - 1)
    ELSE line

Directives == {dir_v, dir_vn, dir_vt, dir_f, dir_mtllib}

\* What the parser holds after the tokens of the given text are read.
AfterTokens(text) ==
    ChunkLoop(ParseState(-1, m_Verts, m_VertNorms, m_VertTexts, m_Faces,
                         m_MaterialFile, FALSE),
              Chunks(text, 1, <<>>), 1)

\* C18: a line is read as the tokens of its text before the first '#', and
\* a line whose first token is none of v, vn, vt, f, mtllib (or which has no
\* token) raises nothing and leaves the position, normal, texture and face
\* arrays and the material filename as they are.
C18_CommentsStrippedUnknownSkipped ==
    [][(o_pc = "parsing" /\ lineNo' = lineNo + 1) =>
         \E text \in {BeforeHash(file[lineNo + 1])} :
            /\ m_Verts' = AfterTokens(text).Verts
            /\ m_VertNorms' = AfterTokens(text).VertNorms
            /\ m_VertTexts' = AfterTokens(text).VertTexts
            /\ m_Faces' = AfterTokens(text).Faces
            /\ m_MaterialFile' = AfterTokens(text).Material
            /\ (o_pc' = "threw") <=> AfterTokens(text).threw
            /\ (Chunks(text, 1, <<>>) = <<>>
                   \/ Chunks(text, 1, <<>>)[1] \notin Directives) =>
                  /\ o_pc' = "parsing"
                  /\ UNCHANGED <<m_Verts, m_VertNorms, m_VertTexts, m_Faces,
                                 m_MaterialFile>>
      ]_vars

\* The parser after a line of an unknown directive and a line with a
\* comment that follows a token at once: the first changed nothing, of the
\* second the three coordinates before the '#' are stored.
C18_Witness ==
    /\ o_pc = "parsing"
    /\ lineNo = 3
    /\ file[2] \in UnknownLines
    /\ file[3] = Line(<<dir_v, tok_0, tok_0, <<"0", "#", "1">>, tok_1>>)
    /\ m_Verts = <<F(0), F(0), F(0), F(0), F(0), F(0)>>

\* The samples at the four corners of the grid.
CornerSamples ==
    {Vtx(x, y) + 1 : x, y \in {0, m_dimension - 1}}

AllSamplesValid ==
    /\ Len(m_heightData) = m_dimension * m_dimension
    /\ \A i \in 1..Len(m_heightData) : m_heightData[i] >= 0

\* C19: once the mesh is built, a grid all of whose n*n samples are valid
\* has 6*(n-1)^2 indices, which are 2*(n-1)^2 different triangles; and for
\* the equation x^2+y^2 with n = 5 and identity 1 the 25 samples are all
\* valid, the four corners evaluate to the bound 50, and the mesh has 96
\* indices in 32 triangles.
C19_FullGridTriangleCount ==
    pc = "done" =>
        /\ AllSamplesValid =>
              /\ Len(m_IBO) = 6 * (m_dimension - 1) * (m_dimension - 1)
              /\ Cardinality(TriangleSets(m_IBO))
                    = 2 * (m_dimension - 1) * (m_dimension - 1)
        /\ (m_equation = "x^2+y^2" /\ m_dimension = 5 /\ graph_id = 1) =>
              /\ Len(m_heightData) = 25
              /\ AllSamplesValid
              /\ \A i \in CornerSamples :
                    zTrace[i] = F(z_bound) /\ m_heightData[i] = One
              /\ Len(m_IBO) = 96
              /\ Cardinality(TriangleSets(m_IBO)) = 32

\* The built mesh of x^2+y^2 at resolution 5.
C19_Witness ==
    /\ pc = "done"
    /\ m_equation = "x^2+y^2"
    /\ m_dimension = 5
    /\ graph_id = 1
    /\ zTrace[1] = F(z_bound)
    /\ Len(m_IBO) = 96

\* The position of the record that the index entry of group k names is the
\* position the group's position index selects.
EntryOfGroup(k) ==
    /\ RecordAt(obj_IBO[k + 1]).x = m_Verts[3 * GroupPos(k) + 1]
    /\ RecordAt(obj_IBO[k + 1]).y = m_Verts[3 * GroupPos(k) + 2]
    /\ RecordAt(obj_IBO[k + 1]).z = m_Verts[3 * GroupPos(k) + 3]

\* C20: after populateBuffers the index buffer has one entry for each index
\* group of the file, the k-th for the k-th group; its length is a multiple
\* of 3; and every entry is below the number of 12-float records of the
\* vertex buffer.
C20_IndexBufferOfTriangles ==
    Constructed =>
        /\ Len(obj_IBO) = Len(m_Faces) \div 3
        /\ \A k \in GroupsDone :
              /\ obj_IBO[k + 1] >= 0
              /\ obj_IBO[k + 1] < NumRecords
              /\ EntryOfGroup(k)
        /\ Len(obj_IBO) % 3 = 0

\* The meshes in the order in which they are merged: the polygon mesh, then
\* the surfaces.
MeshVBO(j) == IF j = 0 THEN obj_VBO ELSE VBOs[j]
MeshIBO(j) == IF j = 0 THEN obj_IBO ELSE IBOs[j]
Meshes == 0..Len(IBOs)

RECURSIVE SumOver(_, _)
SumOver(f, S) ==
    IF S = {} THEN 0
    ELSE LET j == CHOOSE j \in S : TRUE IN f[j] + SumOver(f, S \ {j})

\* The number of vertex records, and of indices, of the meshes before mesh j.
VerticesBefore(j) ==
    SumOver([m \in Meshes |-> Len(MeshVBO(m)) \div 12], 0..(j - 1))
IndicesBefore(j) ==
    SumOver([m \in Meshes |-> Len(MeshIBO(m))], 0..(j - 1))

\* The 12 floats of record r of a vertex buffer.
Record12(vbo, r) == SubSeq(vbo, 12 * r + 1, 12 * r + 12)

Merged == main_pc \in {"specified", "drawn"}

\* C21: once the buffers are merged, the e-th index of mesh j stands at place
\* e after the indices of the meshes before j, is the index of the mesh plus
\* the number of vertex records of the meshes before j, is below the number
\* of records of the merged vertex buffer and names there the record it
\* names in the buffer of its mesh; and the count that is drawn,
\* gFaceCount*3, is the length of the merged index buffer.
C21_MergedIndicesShifted ==
    Merged =>
        /\ Len(indexBufferData) = IndicesBefore(Len(IBOs) + 1)
        /\ Len(vertexData) \div 12 = VerticesBefore(Len(IBOs) + 1)
        /\ \A j \in Meshes : \A e \in 1..Len(MeshIBO(j)) :
              LET merged == indexBufferData[IndicesBefore(j) + e]
              IN  /\ merged = MeshIBO(j)[e] + VerticesBefore(j)
                  /\ merged < Len(vertexData) \div 12
                  /\ Record12(vertexData, merged)
                        = Record12(MeshVBO(j), MeshIBO(j)[e])
        /\ gFaceCount * 3 = Len(indexBufferData)
        /\ main_pc = "drawn" => drawCount = Len(indexBufferData)

=============================================================================
